---- MODULE Spec2Model ----
(***************************************************************************)
(* henlo_linker: a static linker for a 16-bit accumulator machine.         *)
(* Model of src/src/main.rs: main() and its helpers load_addr_code and     *)
(* gen_entrypoint.  The run of main() is a sequential state machine; `pc`  *)
(* is the position of the single thread of control.  The object files are  *)
(* read through the `object` crate; what that reader yields (symbols,      *)
(* section bytes, relocation records) is the input, drawn from the small   *)
(* sets below at the point where the code reads it.                        *)
(***************************************************************************)
EXTENDS Integers, Sequences, FiniteSets, TLC

(* ------------------------------ constants ------------------------------ *)
CLEAR_R_AC == 28080
SHIFT_R_AC == 15616
JMP_R_AC == 48128
ADDI_R_AC == 28
HLT == 255
ENTRY == "main"
ENTRYPOINT_LEN == 10
INSTRUCTION_BYTES == 2
U16_MAX == 65535

(* ------------------------------- bounds -------------------------------- *)
(* files on the command line *)
MaxModules == 2
(* symbols read over the whole run *)
MaxSyms == 2
(* relocation records read over the whole run *)
MaxRelocs == 1
(* bytes of the merged image *)
MaxImageLen == 520

(* Option<String>::None of SimpleSymbol.name *)
NoName == "<None>"
(* Option<usize>::None of main_last_instruction_offset *)
NoOffset == << >>
Some(v) == << v >>

(* The symbols an object file may yield: name, defined-section flag,       *)
(* address, size.                                                          *)
SymChoices ==
  { [name |-> "main", sectioned |-> TRUE,  address |-> 0,      size |-> 8],
    [name |-> "main", sectioned |-> TRUE,  address |-> 0,      size |-> 0],
    [name |-> "foo",  sectioned |-> TRUE,  address |-> 601,    size |-> 2],
    [name |-> "foo",  sectioned |-> TRUE,  address |-> 131064, size |-> 2],
    [name |-> "foo",  sectioned |-> FALSE, address |-> 0,      size |-> 0],
    [name |-> NoName, sectioned |-> FALSE, address |-> 0,      size |-> 0] }

(* The .cs section contents an object file may carry. *)
CodeOf(n) == [i \in 1..n |-> 32 + ((i - 1) % 16)]
CodeChoices == { CodeOf(8), CodeOf(512) }

(* The .rels.cs records: 4-byte offset, 1-byte type, 1-byte symbol id. *)
RelocChoices == [cs_offset : {0, 8}, symbol_id : {0, 1}]

VARIABLES
  pc,                 \* position in main()
  err,                \* diagnostic of the abort, "none" while running
  nargs,              \* env::args().len() - 1
  nfiles,             \* files taken from env::args().skip(1) so far
  simple_symbols,     \* Vec<SimpleSymbol>
  symbol_addresses,   \* HashMap<String, usize>
  executable,         \* Vec<u8>, the merged image
  write_what_where,   \* Vec<WriteSymbol>
  symbol_offset,      \* per-file local
  exec_offset,        \* per-file local
  main_last_instruction_offset, \* per-file local, Option<usize>
  nread,              \* records read by rdr from this file's .rels.cs
  entrypoint_jmp_code,\* Vec<u8>
  wi,                 \* position of the `for www in &write_what_where` loop
  output,             \* /tmp/henlo.bin: [created, bytes]
  symlog,             \* history: every symbol yielded so far, with its file
  layout,             \* history: per merged file, its bases and lengths
  www_file            \* history: the file each write_what_where entry is from

vars == << pc, err, nargs, nfiles, simple_symbols, symbol_addresses,
           executable, write_what_where, symbol_offset, exec_offset,
           main_last_instruction_offset, nread, entrypoint_jmp_code, wi,
           output, symlog, layout, www_file >>

(* ------------------------------ helpers -------------------------------- *)
Hi(w) == (w \div 256) % 256
Lo(w) == w % 256

(* fn load_addr_code: TooBig stands for panic!("Address too big") *)
TooBig == << "Address too big" >>
load_addr_code(addr) ==
  IF addr > U16_MAX THEN TooBig
  ELSE LET top    == (addr \div 256) % 256
           bottom == addr % 256
       IN << Hi(CLEAR_R_AC), Lo(CLEAR_R_AC), ADDI_R_AC, top,
             Hi(SHIFT_R_AC), Lo(SHIFT_R_AC), ADDI_R_AC, bottom >>

(* fn gen_entrypoint *)
gen_entrypoint(addr) ==
  LET ac == load_addr_code(addr)
  IN IF ac = TooBig THEN TooBig
     ELSE ac \o << Hi(JMP_R_AC), Lo(JMP_R_AC) >>

(* mutant: the off-by-one correction of the address unit is forgotten *)
AddrUnitNoCorrection(address, header) == (address + header) \div INSTRUCTION_BYTES

(* ((address + header) / INSTRUCTION_BYTES).wrapping_sub(1); the quotient   *)
(* is at least 5, so the subtraction never wraps.                          *)
AddrUnit(address, header) == ((address + header) \div INSTRUCTION_BYTES) - 1

(* Vec::splice(start..end, repl) with 0-based half-open range.  A negative  *)
(* start stands for a usize that wrapped below zero (2^64 + start): then    *)
(* start > end or end > len, and the range check panics either way.         *)
SpliceOk(v, start, end) == start >= 0 /\ start <= end /\ end <= Len(v)
Splice(v, start, end, repl) ==
  SubSeq(v, 1, start) \o repl \o SubSeq(v, end + 1, Len(v))

Insert(map, k, v) ==
  [n \in (DOMAIN map) \cup {k} |-> IF n = k THEN v ELSE map[n]]

Abort(e) == pc' = "aborted" /\ err' = e

(* mutant: only the entry symbol is checked for an earlier definition *)
IsDuplicateEntryOnly(table, name) == name = ENTRY /\ name \in DOMAIN table

(* main.rs 137-141: symbol_addresses.get(name) is Some(_) *)
IsDuplicate(table, name) == name \in DOMAIN table

(* mutant: the file's base offset is left out of the recorded address *)
AbsoluteAddressRelative(base, address) == address

(* main.rs 143: the address recorded for a defined symbol *)
AbsoluteAddress(base, address) == base + address

(* main.rs 204-210: symbol_addresses.get(ENTRY), None when absent *)
EntryAddress(table) ==
  IF ENTRY \in DOMAIN table
  THEN Some(AddrUnit(table[ENTRY], ENTRYPOINT_LEN))
  ELSE NoOffset

(* mutant: an absent name resolves to address 0 instead of aborting *)
SymbolAddressOrZero(table, name, header) ==
  IF name \in DOMAIN table
  THEN Some(AddrUnit(table[name], header))
  ELSE Some(AddrUnit(0, header))

(* main.rs 219-225: symbol_addresses.get(name), None when absent *)
SymbolAddress(table, name, header) ==
  IF name \in DOMAIN table
  THEN Some(AddrUnit(table[name], header))
  ELSE NoOffset

(* ------------------------------- initial ------------------------------- *)
Init ==
  /\ pc = "start"
  /\ err = "none"
  /\ nargs \in 0..MaxModules
  /\ nfiles = 0
  /\ simple_symbols = << >>
  /\ symbol_addresses = [n \in {} |-> 0]
  /\ executable = << >>
  /\ write_what_where = << >>
  /\ symbol_offset = 0
  /\ exec_offset = 0
  /\ main_last_instruction_offset = NoOffset
  /\ nread = 0
  /\ entrypoint_jmp_code = << >>
  /\ wi = 1
  /\ output = [created |-> FALSE, bytes |-> << >>]
  /\ symlog = << >>
  /\ layout = << >>
  /\ www_file = << >>

(* ------------------------------- actions ------------------------------- *)
(* main.rs 97-108: usage check and construction of the empty collections *)
CheckArgs ==
  /\ pc = "start"
  /\ IF nargs = 0 THEN Abort("Usage") ELSE pc' = "open" /\ err' = err
  /\ UNCHANGED << nargs, nfiles, simple_symbols, symbol_addresses, executable,
                  write_what_where, symbol_offset, exec_offset,
                  main_last_instruction_offset, nread, entrypoint_jmp_code,
                  wi, output, symlog, layout, www_file >>

(* main.rs 110-121 with get_object_file (56-80): next file of the loop *)
GetObjectFile ==
  /\ pc = "open"
  /\ nfiles < nargs
  /\ \E r \in {"ok", "OpenFailed", "ParseFailed"} :
       IF r = "ok"
       THEN /\ pc' = "symbols"
            /\ err' = err
            /\ nfiles' = nfiles + 1
            /\ symbol_offset' = Len(simple_symbols)
            /\ exec_offset' = Len(executable)
            /\ main_last_instruction_offset' = NoOffset
            /\ nread' = 0
       ELSE /\ Abort(r)
            /\ UNCHANGED << nfiles, symbol_offset, exec_offset,
                            main_last_instruction_offset, nread >>
  /\ UNCHANGED << nargs, simple_symbols, symbol_addresses, executable,
                  write_what_where, entrypoint_jmp_code, wi, output, symlog,
                  layout, www_file >>

(* main.rs 145: exec_offset + ss.address + ss.size - 2 in usize.  A result  *)
(* below zero panics in a build with overflow checks and wraps in a build   *)
(* without; the wrapped value is kept as the negative number.               *)
LastInstructionOffset(base, s) == base + s.address + s.size - 2

(* main.rs 123-157: one iteration of `for symbol in file.symbols()` *)
IngestSymbol ==
  /\ pc = "symbols"
  /\ Len(simple_symbols) < MaxSyms
  /\ \E s \in SymChoices :
       LET ss == [name |-> s.name, symbol_index |-> Len(simple_symbols),
                  address |-> s.address, size |-> s.size]
           defines == s.name # NoName /\ s.sectioned
       IN /\ symlog' = Append(symlog, [name |-> s.name, sectioned |-> s.sectioned,
                                       address |-> s.address, size |-> s.size,
                                       file |-> nfiles])
          /\ IF defines /\ IsDuplicate(symbol_addresses, s.name)
             THEN /\ Abort("Duplicate")
                  /\ UNCHANGED << simple_symbols, symbol_addresses,
                                  main_last_instruction_offset >>
             ELSE /\ pc' = pc
                  /\ err' = err
                  /\ simple_symbols' = Append(simple_symbols, ss)
                  /\ symbol_addresses' =
                       IF defines
                       THEN Insert(symbol_addresses, s.name,
                                   AbsoluteAddress(exec_offset, ss.address))
                       ELSE symbol_addresses
                  /\ main_last_instruction_offset' =
                       IF defines /\ s.name = ENTRY
                       THEN Some(LastInstructionOffset(exec_offset, ss))
                       ELSE main_last_instruction_offset
  /\ UNCHANGED << nargs, nfiles, executable, write_what_where, symbol_offset,
                  exec_offset, nread, entrypoint_jmp_code, wi, output, layout,
                  www_file >>

(* main.rs 145 in a build with overflow checks: the subtraction panics *)
IngestSymbolOverflow ==
  /\ pc = "symbols"
  /\ Len(simple_symbols) < MaxSyms
  /\ \E s \in SymChoices :
       /\ s.name = ENTRY /\ s.sectioned
       /\ ~IsDuplicate(symbol_addresses, s.name)
       /\ LastInstructionOffset(exec_offset, s) < 0
       /\ symlog' = Append(symlog, [name |-> s.name, sectioned |-> s.sectioned,
                                    address |-> s.address, size |-> s.size,
                                    file |-> nfiles])
       /\ symbol_addresses' = Insert(symbol_addresses, s.name,
                                      AbsoluteAddress(exec_offset, s.address))
  /\ Abort("PanicSubOverflow")
  /\ UNCHANGED << nargs, nfiles, simple_symbols, executable, write_what_where,
                  symbol_offset, exec_offset, main_last_instruction_offset,
                  nread, entrypoint_jmp_code, wi, output, layout, www_file >>

(* main.rs 184: the halt patch *)
HaltPatch(exe, offset) == Splice(exe, offset, offset + 2, << HLT, HLT >>)

(* main.rs 159-187: end of the symbol loop, the two section lookups, the   *)
(* append of the code and the halt patch                                    *)
MergeCode ==
  /\ pc = "symbols"
  /\ \E code \in CodeChoices :
       /\ Len(executable) + Len(code) <= MaxImageLen
       /\ LET merged == executable \o code
              offset == main_last_instruction_offset[1]
          IN IF main_last_instruction_offset = NoOffset
             THEN pc' = "relocs" /\ err' = err /\ executable' = merged
             ELSE IF SpliceOk(merged, offset, offset + 2)
                  THEN /\ pc' = "relocs" /\ err' = err
                       /\ executable' = HaltPatch(merged, offset)
                  ELSE Abort("PanicSpliceRange") /\ executable' = merged
       /\ layout' = Append(layout, [exec_offset |-> exec_offset,
                                    code_len |-> Len(code),
                                    symbol_offset |-> symbol_offset,
                                    nsyms |-> Len(simple_symbols) - symbol_offset])
  /\ UNCHANGED << nargs, nfiles, simple_symbols, symbol_addresses,
                  write_what_where, symbol_offset, exec_offset,
                  main_last_instruction_offset, nread, entrypoint_jmp_code,
                  wi, output, symlog, www_file >>

(* main.rs 159-173: a mandated section is absent *)
MissingSection ==
  /\ pc = "symbols"
  /\ \E which \in {"NoRelsSection", "NoCodeSection"} : Abort(which)
  /\ UNCHANGED << nargs, nfiles, simple_symbols, symbol_addresses, executable,
                  write_what_where, symbol_offset, exec_offset,
                  main_last_instruction_offset, nread, entrypoint_jmp_code,
                  wi, output, symlog, layout, www_file >>

(* main.rs 191-200: one record of .rels.cs *)
ReadRelocation ==
  /\ pc = "relocs"
  /\ Len(write_what_where) < MaxRelocs
  /\ \E r \in RelocChoices :
       /\ write_what_where' =
            Append(write_what_where,
                   [cs_offset |-> exec_offset + r.cs_offset,
                    symbol_index |-> symbol_offset + r.symbol_id])
       /\ www_file' = Append(www_file, nfiles)
  /\ nread' = nread + 1
  /\ UNCHANGED << pc, err, nargs, nfiles, simple_symbols, symbol_addresses,
                  executable, symbol_offset, exec_offset,
                  main_last_instruction_offset, entrypoint_jmp_code, wi,
                  output, symlog, layout >>

(* main.rs 192-195: the section ends inside a record, a read_* unwrap panics *)
ReadRelocationTruncated ==
  /\ pc = "relocs"
  /\ Abort("PanicUnexpectedEof")
  /\ UNCHANGED << nargs, nfiles, simple_symbols, symbol_addresses, executable,
                  write_what_where, symbol_offset, exec_offset,
                  main_last_instruction_offset, nread, entrypoint_jmp_code,
                  wi, output, symlog, layout, www_file >>

(* main.rs 191, 110: the cursor reached the end of .rels.cs; next file or,  *)
(* after the last one, on to the entry lookup                               *)
EndOfRelocations ==
  /\ pc = "relocs"
  /\ pc' = IF nfiles < nargs THEN "open" ELSE "entry"
  /\ UNCHANGED << err, nargs, nfiles, simple_symbols, symbol_addresses,
                  executable, write_what_where, symbol_offset, exec_offset,
                  main_last_instruction_offset, nread, entrypoint_jmp_code,
                  wi, output, symlog, layout, www_file >>

(* main.rs 203-213: entry lookup and trampoline *)
GenEntrypoint ==
  /\ pc = "entry"
  /\ IF EntryAddress(symbol_addresses) = NoOffset
     THEN Abort("MissingEntry") /\ UNCHANGED entrypoint_jmp_code
     ELSE LET entry_address == EntryAddress(symbol_addresses)[1]
              code == gen_entrypoint(entry_address)
          IN IF code = TooBig
             THEN Abort("PanicAddressTooBig") /\ UNCHANGED entrypoint_jmp_code
             ELSE IF Len(code) # ENTRYPOINT_LEN
                  THEN Abort("PanicAssert") /\ UNCHANGED entrypoint_jmp_code
                  ELSE pc' = "patch" /\ err' = err /\ entrypoint_jmp_code' = code
  /\ UNCHANGED << nargs, nfiles, simple_symbols, symbol_addresses, executable,
                  write_what_where, symbol_offset, exec_offset,
                  main_last_instruction_offset, nread, wi, output, symlog,
                  layout, www_file >>

(* mutant: the fragment is inserted at the offset, nothing is overwritten *)
RelocPatchInsert(exe, cs_offset, insert_code) ==
  Splice(exe, cs_offset, cs_offset, insert_code)

(* mutant: a 6-byte range is replaced by the 8-byte fragment *)
RelocPatchSixRange(exe, cs_offset, insert_code) ==
  Splice(exe, cs_offset, cs_offset + 6, insert_code)

(* main.rs 227-228: the patch of one relocation *)
RelocPatch(exe, cs_offset, insert_code) ==
  Splice(exe, cs_offset, cs_offset + Len(insert_code), insert_code)

(* main.rs 215-229: one iteration of `for www in &write_what_where` *)
PatchRelocation ==
  /\ pc = "patch"
  /\ wi <= Len(write_what_where)
  /\ LET www == write_what_where[wi]
         i == www.symbol_index
     IN IF i >= Len(simple_symbols)
        THEN Abort("PanicIndexOutOfBounds") /\ UNCHANGED << executable, wi >>
        ELSE LET name == simple_symbols[i + 1].name
             IN IF name = NoName
                THEN Abort("PanicUnwrapNone") /\ UNCHANGED << executable, wi >>
                ELSE IF SymbolAddress(symbol_addresses, name,
                                      Len(entrypoint_jmp_code)) = NoOffset
                THEN Abort("MissingSymbol") /\ UNCHANGED << executable, wi >>
                ELSE LET symbol_address ==
                           SymbolAddress(symbol_addresses, name,
                                         Len(entrypoint_jmp_code))[1]
                         insert_code == load_addr_code(symbol_address)
                     IN IF insert_code = TooBig
                        THEN Abort("PanicAddressTooBig") /\ UNCHANGED << executable, wi >>
                        ELSE IF ~SpliceOk(executable, www.cs_offset,
                                          www.cs_offset + Len(insert_code))
                        THEN Abort("PanicSpliceRange") /\ UNCHANGED << executable, wi >>
                        ELSE /\ pc' = pc /\ err' = err
                             /\ executable' =
                                  RelocPatch(executable, www.cs_offset, insert_code)
                             /\ wi' = wi + 1
  /\ UNCHANGED << nargs, nfiles, simple_symbols, symbol_addresses,
                  write_what_where, symbol_offset, exec_offset,
                  main_last_instruction_offset, nread, entrypoint_jmp_code,
                  output, symlog, layout, www_file >>

(* mutant: the output file is created while relocations are still pending *)
CreateOutputEarly ==
  /\ pc = "patch"
  /\ pc' = "write_entrypoint"
  /\ output' = [created |-> TRUE, bytes |-> << >>]
  /\ UNCHANGED << err, nargs, nfiles, simple_symbols, symbol_addresses,
                  executable, write_what_where, symbol_offset, exec_offset,
                  main_last_instruction_offset, nread, entrypoint_jmp_code,
                  wi, symlog, layout, www_file >>

(* main.rs 231: fs::File::create truncates /tmp/henlo.bin *)
CreateOutput ==
  /\ pc = "patch"
  /\ wi > Len(write_what_where)
  /\ pc' = "write_entrypoint"
  /\ output' = [created |-> TRUE, bytes |-> << >>]
  /\ UNCHANGED << err, nargs, nfiles, simple_symbols, symbol_addresses,
                  executable, write_what_where, symbol_offset, exec_offset,
                  main_last_instruction_offset, nread, entrypoint_jmp_code,
                  wi, symlog, layout, www_file >>

(* main.rs 232: write_all(&entrypoint_jmp_code) *)
WriteEntrypoint ==
  /\ pc = "write_entrypoint"
  /\ pc' = "write_executable"
  /\ output' = [output EXCEPT !.bytes = @ \o entrypoint_jmp_code]
  /\ UNCHANGED << err, nargs, nfiles, simple_symbols, symbol_addresses,
                  executable, write_what_where, symbol_offset, exec_offset,
                  main_last_instruction_offset, nread, entrypoint_jmp_code,
                  wi, symlog, layout, www_file >>

(* main.rs 233-234: write_all(&executable), then main returns *)
WriteExecutable ==
  /\ pc = "write_executable"
  /\ pc' = "done"
  /\ output' = [output EXCEPT !.bytes = @ \o executable]
  /\ UNCHANGED << err, nargs, nfiles, simple_symbols, symbol_addresses,
                  executable, write_what_where, symbol_offset, exec_offset,
                  main_last_instruction_offset, nread, entrypoint_jmp_code,
                  wi, symlog, layout, www_file >>

Next ==
  \/ CheckArgs
  \/ GetObjectFile
  \/ IngestSymbol
  \/ IngestSymbolOverflow
  \/ MergeCode
  \/ MissingSection
  \/ ReadRelocation
  \/ ReadRelocationTruncated
  \/ EndOfRelocations
  \/ GenEntrypoint
  \/ PatchRelocation
  \/ CreateOutput
  \/ WriteEntrypoint
  \/ WriteExecutable

Spec == Init /\ [][Next]_vars

(* ============================ properties ============================== *)
RECURSIVE SumCodeLen(_, _)
(* sum of the code-section lengths of the first n merged files *)
SumCodeLen(lay, n) == IF n = 0 THEN 0 ELSE SumCodeLen(lay, n - 1) + lay[n].code_len

Defines(e) == e.sectioned /\ e.name # NoName

(* index in symlog of the first definition of a name *)
FirstDef(name) ==
  CHOOSE d \in 1..Len(symlog) :
    /\ Defines(symlog[d]) /\ symlog[d].name = name
    /\ \A c \in 1..(d - 1) : ~(Defines(symlog[c]) /\ symlog[c].name = name)

Written == output.created

(* two definitions of one name among the symbols read so far *)
DuplicateDefinition ==
  \E i, j \in 1..Len(symlog) :
    i < j /\ Defines(symlog[i]) /\ Defines(symlog[j]) /\ symlog[i].name = symlog[j].name

(* record k of write_what_where names a symbol that no file defines *)
UndefinedReference(k) ==
  LET i == write_what_where[k].symbol_index
  IN /\ i < Len(simple_symbols)
     /\ simple_symbols[i + 1].name # NoName
     /\ \A d \in 1..Len(symlog) :
          ~(Defines(symlog[d]) /\ symlog[d].name = simple_symbols[i + 1].name)

C2_OutputLength ==
  /\ pc # "start" => Len(executable) = SumCodeLen(layout, Len(layout))
  /\ pc = "done" => Len(output.bytes) = 10 + SumCodeLen(layout, Len(layout))

C2_Witness ==
  /\ pc = "done" /\ Len(layout) = 2 /\ wi > 1
  /\ layout[1].code_len > 0 /\ layout[2].code_len > 0

(* C7: files are laid out in input order without gaps: the base of each     *)
(* file is the sum of the code lengths of the files before it, and every    *)
(* address in the table is the symbol's own address plus the base of the    *)
(* file that defines it.                                                     *)
C7_Layout ==
  /\ \A k \in 1..Len(layout) : layout[k].exec_offset = SumCodeLen(layout, k - 1)
  /\ pc = "symbols" => exec_offset = SumCodeLen(layout, nfiles - 1)
  /\ \A name \in DOMAIN symbol_addresses :
       LET d == symlog[FirstDef(name)]
       IN /\ d.file - 1 <= Len(layout)
          /\ symbol_addresses[name] = d.address + SumCodeLen(layout, d.file - 1)

C7_Witness ==
  /\ pc = "done" /\ Len(layout) = 2 /\ layout[1].code_len > 0
  /\ \E name \in DOMAIN symbol_addresses :
       /\ symlog[FirstDef(name)].file = 2
       /\ symlog[FirstDef(name)].address > 0
       /\ symbol_addresses[name] = symlog[FirstDef(name)].address + layout[1].code_len

(* the entry symbol as its defining file gave it *)
EntrySymbol == symlog[FirstDef(ENTRY)]

(* 1-based position in the output of the first byte of the entry            *)
(* function's final instruction: 10 + absolute address + size - 2           *)
EntryLastInstruction ==
  ENTRYPOINT_LEN + symbol_addresses[ENTRY] + EntrySymbol.size - INSTRUCTION_BYTES + 1

(* C3: in every emitted output the two bytes at the entry function's final  *)
(* instruction are 0xFF 0xFF, whatever relocation patches were applied.     *)
C3_HaltBytesInOutput ==
  pc = "done" =>
    /\ output.bytes[EntryLastInstruction] = 255
    /\ output.bytes[EntryLastInstruction + 1] = 255

(* C4: a second definition of a name aborts the run with the duplicate      *)
(* error at that symbol: the symbol is not recorded, no relocation has been *)
(* patched and the output is untouched.                                     *)
C4_DuplicateAborts ==
  DuplicateDefinition =>
    /\ pc = "aborted" /\ err = "Duplicate"
    /\ ~Written /\ output.bytes = << >>
    /\ wi = 1 /\ entrypoint_jmp_code = << >>
    /\ Len(simple_symbols) = Len(symlog) - 1
    /\ \E i \in 1..(Len(symlog) - 1) :
         /\ Defines(symlog[i]) /\ Defines(symlog[Len(symlog)])
         /\ symlog[i].name = symlog[Len(symlog)].name

C4_Witness ==
  /\ err = "Duplicate"
  /\ \E i \in 1..(Len(symlog) - 1) :
       /\ Defines(symlog[i]) /\ symlog[i].name = symlog[Len(symlog)].name
       /\ symlog[i].file = 1 /\ symlog[Len(symlog)].file = 2

(* the relocation loop has been entered: the trampoline exists *)
Resolving == entrypoint_jmp_code # << >>

(* C5: a relocation whose symbol name no file defines stops the run: the    *)
(* relocation loop never gets past such a record, it aborts there with the  *)
(* missing-symbol error, and the output is untouched.                       *)
C5_UndefinedAborts ==
  /\ Written => \A k \in 1..Len(write_what_where) : ~UndefinedReference(k)
  /\ Resolving =>
       /\ \A k \in 1..(wi - 1) : ~UndefinedReference(k)
       /\ (wi <= Len(write_what_where) /\ UndefinedReference(wi) /\ pc = "aborted")
            => err = "MissingSymbol" /\ ~Written
  /\ err = "MissingSymbol" =>
       /\ Resolving /\ wi <= Len(write_what_where) /\ UndefinedReference(wi)
       /\ ~Written /\ output.bytes = << >>
  /\ (pc = "patch" /\ wi <= Len(write_what_where)) => ~Written

C5_Witness ==
  /\ err = "MissingSymbol" /\ pc = "aborted"
  /\ UndefinedReference(wi)

(* the 8 bytes the encoding of address unit u consists of *)
Fragment(u) == << 109, 176, 28, u \div 256, 61, 0, 28, u % 256 >>

(* C6: the trampoline is 10 bytes: the load-address fragment for            *)
(* ((A + 10) / 2) - 1, A the entry's absolute address, then the jump        *)
(* opcode; the relocation patch applied last carries the same encoding of   *)
(* the same formula for its target.                                         *)
C6_AddressEncoding ==
  Resolving =>
    /\ Len(entrypoint_jmp_code) = 10
    /\ LET u == ((symbol_addresses[ENTRY] + 10) \div 2) - 1
       IN /\ u >= 0 /\ u <= 65535
          /\ entrypoint_jmp_code = Fragment(u) \o << 188, 0 >>
    /\ wi > 1 =>
         LET www == write_what_where[wi - 1]
             name == simple_symbols[www.symbol_index + 1].name
             u == ((symbol_addresses[name] + 10) \div 2) - 1
         IN /\ u >= 0 /\ u <= 65535
            /\ SubSeq(executable, www.cs_offset + 1, www.cs_offset + 8) = Fragment(u)

C6_Witness ==
  /\ pc = "done" /\ wi > 1
  /\ entrypoint_jmp_code[4] > 0
  /\ EntrySymbol.size >= 2
  /\ executable[write_what_where[wi - 1].cs_offset + 4] > 0
  /\ symbol_addresses[ENTRY] % 2 = 0
  /\ \E name \in DOMAIN symbol_addresses : symbol_addresses[name] % 2 = 1

(* an entry symbol whose size is below the instruction width was read *)
EntryTooSmall ==
  \E d \in 1..Len(symlog) :
    /\ Defines(symlog[d]) /\ symlog[d].name = ENTRY
    /\ symlog[d].size < INSTRUCTION_BYTES

(* C8: an entry symbol smaller than one instruction aborts the run: the run *)
(* never leaves the symbol loop of that file other than by aborting, so no  *)
(* halt patch is applied and no output is produced.                         *)
C8_SmallEntryAborts ==
  EntryTooSmall =>
    /\ pc \in {"symbols", "aborted"}
    /\ ~Written

(* one relocation patch has just been applied *)
PatchStep == pc = "patch" /\ pc' = "patch" /\ wi' = wi + 1

(* the step leaves every byte outside the n bytes at the patch offset alone *)
PatchFrame(n) ==
  LET off == write_what_where[wi].cs_offset
  IN /\ Len(executable') = Len(executable)
     /\ \A i \in 1..Len(executable) :
          (i <= off \/ i > off + n) => executable'[i] = executable[i]

(* C9 as stated: a relocation patch overwrites exactly 6 bytes at the patch *)
(* offset and leaves every other byte of the merged image unchanged.        *)
C9_SixByteFrame == [][PatchStep => PatchFrame(6)]_vars

(* C9 amended: a relocation patch overwrites exactly the 8 bytes at the     *)
(* patch offset (file base + record offset) with the 8-byte fragment clear, *)
(* add-immediate high, shift, add-immediate low, and leaves every other     *)
(* byte of the merged image unchanged.                                      *)
C9_EightByteFrame ==
  [][PatchStep =>
       /\ PatchFrame(8)
       /\ LET www == write_what_where[wi]
              name == simple_symbols[www.symbol_index + 1].name
              u == ((symbol_addresses[name] + 10) \div 2) - 1
          IN /\ SubSeq(executable', www.cs_offset + 1, www.cs_offset + 8) = Fragment(u)
             /\ \E r \in RelocChoices :
                  www.cs_offset = layout[www_file[wi]].exec_offset + r.cs_offset
    ]_vars

C9_Witness ==
  /\ pc = "done" /\ wi > 1
  /\ Len(executable) > 8
  /\ write_what_where[1].cs_offset > 0
  /\ executable[write_what_where[1].cs_offset + 7] = 28
  /\ executable[write_what_where[1].cs_offset + 9] # 28

(* C10: every relocation record that is resolved selects a symbol that was  *)
(* read from the record's own file: its index lies inside that file's       *)
(* slice of simple_symbols.                                                 *)
C10_OwnSymbolTable ==
  Resolving =>
    \A k \in 1..(wi - 1) :
      LET own == layout[www_file[k]]
          i == write_what_where[k].symbol_index
      IN /\ i >= own.symbol_offset
         /\ i < own.symbol_offset + own.nsyms
         /\ i < Len(simple_symbols)

====
